---------------------------- MODULE Spec2Model ----------------------------
(***************************************************************************)
(* Model of the Mario Kart World soundtrack scripts:                       *)
(*   download_mkw_music.py   (downloader: download_song, download_all_songs)*)
(*   convert_to_alac.py      (converter: convert_file,                     *)
(*                            convert_files_parallel)                      *)
(*   generate_download_urls.py (URL-list generator: fetch_song_data)       *)
(*   verify_downloads.py     (verifier: verify_downloads)                  *)
(*                                                                         *)
(* Text is modelled as a sequence of tokens (a token is a chunk of the     *)
(* text: one character or one word), so that replace(), strip(), split()   *)
(* and the substring test `in` are computed on it as the code computes     *)
(* them on characters.                                                     *)
(*                                                                         *)
(* Four specifications share the module: SpecDownload, SpecConvert,        *)
(* SpecScrape and SpecVerify.  Each leaves the other scripts' variables    *)
(* idle: the scripts are separate processes that share nothing in memory.  *)
(***************************************************************************)
EXTENDS Integers, Sequences, FiniteSets, TLC

VARIABLES
    \* ---- downloader (download_mkw_music.py) ----
    songs,          \* the list download_all_songs is given: sequence of [id, name]
    maxWorkers,     \* max_workers of the thread pool
    fs,             \* directory mkw_music_brstm: path -> content, domain = files present
    referer,        \* session.headers['Referer'] of the one shared session
    pc,             \* per task: position in download_song
    body,           \* per task: what the raw-file response carries
    result,         \* per task: the string download_song returned (tokens)
    outcome,        \* per task: what the call really did: skipped / failed / downloaded
    pageRef,        \* per task: Referer the song-page request was sent with
    rawRef,         \* per task: Referer the raw-file request was sent with
    pageStatus,     \* per task: how the song-page request ended
    openedPath,     \* per task: the path the call opened for writing
    handle,         \* per task: its open file: none / live / orphan (unlinked under it)
    existedAtCall,  \* per task: filepath.exists() as the call saw it
    fsAtCall,       \* per task: content of the target as the call saw it
    reported,       \* futures the as_completed loop has consumed
    completed,      \* download_all_songs: completed
    failed,         \* download_all_songs: failed
    mainpc,         \* download_all_songs: position of the main thread
    printed,        \* the summary: [downloaded, failed] as printed
    prevOutcome,    \* per task: outcome of the same song in the previous run
    \* ---- converter (convert_to_alac.py) ----
    brstm,          \* brstm_files: the stems of INPUT_DIR/*.brstm, in glob order
    cpus,           \* cpu_count()
    ofs,            \* directory mkw_music_alac: path -> content
    ofs0,           \* that directory as the run found it
    cpc,            \* convert_files_parallel: position of the main process
    skipped,        \* stems printed as skipped
    tasks,          \* tasks: the stems to convert, in order
    submits,        \* per stem: times submitted to the pool
    wpc,            \* per stem: position of its convert_file call
    cresult,        \* per stem: what convert_file returned or raised
    extractor,      \* per stem: how its vgmstream-cli invocation ended
    transcoder,     \* per stem: how its ffmpeg invocation ended
    removal,        \* per stem: how temp_wav.unlink() ended
    printedLines,   \* stems whose result line the main loop printed
    ccompleted,     \* convert_files_parallel: completed
    \* ---- scrape (both fetch_song_data) ----
    html,           \* the page the site serves
    dlSongs,        \* what download_mkw_music.fetch_song_data returned
    genSongs,       \* what generate_download_urls.fetch_song_data returned
    \* ---- verifier (verify_downloads.py) ----
    vSite,          \* the song names the site lists (excluding fan remixes)
    vDirExists,     \* whether mkw_music_brstm exists
    vDir,           \* mkw_music_brstm/*.brstm: file name -> "small" (under
                    \* 100000 bytes) or "audio"
    vpc,            \* verify_downloads: position
    vExpected,      \* expected_songs
    vFiles,         \* downloaded_files (their names)
    vMissing,       \* missing
    vExtra,         \* extra
    vSmall,         \* small_files
    vCount,         \* the COUNT VERIFICATION line printed
    vMatch,         \* the FILE MATCHING line printed
    vFinal          \* the FINAL VERDICT printed

dvars == <<songs, maxWorkers, fs, referer, pc, body, result, outcome, pageRef,
           rawRef, pageStatus, openedPath, handle, existedAtCall, fsAtCall, reported,
           completed, failed, mainpc, printed, prevOutcome>>
cvars == <<brstm, cpus, ofs, ofs0, cpc, skipped, tasks, submits, wpc, cresult,
           extractor, transcoder, removal, printedLines, ccompleted>>
svars == <<html, dlSongs, genSongs>>
vvars == <<vSite, vDirExists, vDir, vpc, vExpected, vFiles, vMissing, vExtra,
           vSmall, vCount, vMatch, vFinal>>
vars  == <<dvars, cvars, svars, vvars>>

None == "none"
\* no text: no header set, no string returned, no path opened
NoText == <<>>

\* ------------------------------------------------------------------ bounds
MaxSongs   == 2     \* songs in the list
MaxWorkers == 2     \* max_workers
MaxFiles   == 2     \* .brstm files in the input directory
MaxCpus    == 2     \* cpu_count()
MaxPageLen == 5     \* tokens of the page
VerifySlack == 1    \* how far the number of listed songs may be from 267

(***************************************************************************)
(* Text helpers                                                            *)
(***************************************************************************)
Range(s) == {s[i] : i \in DOMAIN s}

\* Python's `word in text` on token text
In(word, text) == \E i \in DOMAIN text : text[i] = word

\* str.strip(): drop leading and trailing whitespace
RECURSIVE LStrip(_)
LStrip(s) == IF s # <<>> /\ Head(s) = " " THEN LStrip(Tail(s)) ELSE s
RECURSIVE RStrip(_)
RStrip(s) == IF s # <<>> /\ s[Len(s)] = " " THEN RStrip(SubSeq(s, 1, Len(s) - 1)) ELSE s
Strip(s) == RStrip(LStrip(s))

InvalidChars == {"<", ">", ":", "\"", "/", "\\", "|", "?", "*"}

\* sanitize_filename: every invalid character becomes '_', then strip()
sanitize_filename(filename) ==
    Strip([i \in DOMAIN filename |->
              IF filename[i] \in InvalidChars THEN "_" ELSE filename[i]])

\* a bug that would build the target from a fixed text instead of the song's name
FilePathConstant(song) == <<"song", ".brstm">>

\* filepath = output_dir / f"{sanitize_filename(song['name'])}.brstm"
FilePath(song) == sanitize_filename(song.name) \o <<".brstm">>

\* the names the song list is drawn from: two that sanitize to the same file
\* name, one that holds the word the summary loop looks for
SongNames == { <<"a">>, <<"b", ":">>, <<"b", "?">>, <<"Failed", " ">> }

GamePage      == <<"game", 5609>>
SongPage(id)  == <<"song", id>>

\* the strings download_song returns
SkippedMsg(song)      == <<"Skipped", " (already exists): ">> \o song.name
FailedMsg(song, why)  == <<"Failed", ": ">> \o song.name \o <<" - ", why>>
DownloadedMsg(song)   == <<"Downloaded", ": ">> \o song.name

(***************************************************************************)
(* The directory: a function whose domain is the set of files present      *)
(***************************************************************************)
Exists(dir, p)      == p \in DOMAIN dir
WriteFile(dir, p, c) == [q \in DOMAIN dir \cup {p} |-> IF q = p THEN c ELSE dir[q]]
Unlink(dir, p)      == [q \in DOMAIN dir \ {p} |-> dir[q]]
ContentOf(dir, p)   == IF p \in DOMAIN dir THEN dir[p] ELSE None

\* idle values of the other scripts' variables
ConvertIdle ==
    /\ brstm = <<>> /\ cpus = 0 /\ ofs = <<>> /\ ofs0 = <<>> /\ cpc = "idle"
    /\ skipped = {} /\ tasks = <<>> /\ submits = <<>> /\ wpc = <<>>
    /\ cresult = <<>> /\ extractor = <<>> /\ transcoder = <<>>
    /\ removal = <<>> /\ printedLines = {} /\ ccompleted = 0
DownloadIdle ==
    /\ songs = <<>> /\ maxWorkers = 0 /\ fs = <<>> /\ referer = NoText
    /\ pc = <<>> /\ body = <<>> /\ result = <<>> /\ outcome = <<>>
    /\ pageRef = <<>> /\ rawRef = <<>> /\ pageStatus = <<>> /\ openedPath = <<>>
    /\ handle = <<>> /\ existedAtCall = <<>> /\ fsAtCall = <<>> /\ reported = {}
    /\ completed = 0 /\ failed = 0 /\ mainpc = "idle"
    /\ printed = None /\ prevOutcome = <<>>
NotFetched == [status |-> "pending", songs |-> <<>>]
ScrapeIdle == html = <<>> /\ dlSongs = NotFetched /\ genSongs = NotFetched
VerifyIdle ==
    /\ vSite = <<>> /\ vDirExists = FALSE /\ vDir = <<>> /\ vpc = "idle"
    /\ vExpected = <<>> /\ vFiles = {} /\ vMissing = {} /\ vExtra = {}
    /\ vSmall = {} /\ vCount = None /\ vMatch = None /\ vFinal = None

(***************************************************************************)
(* Downloader: download_all_songs and its download_song tasks              *)
(***************************************************************************)
Tasks == DOMAIN songs
Path(t) == FilePath(songs[t])
Running == {t \in Tasks : pc[t] \notin {"queued", "done"}}
AllNone == [t \in Tasks |-> None]
AllNoText == [t \in Tasks |-> NoText]

\* a bug that would test a path that is never there (the name without its
\* extension, say)
SkipTestWrongPath(dir, p) == FALSE

\* if filepath.exists():
SkipTest(dir, p) == Exists(dir, p)

\* a bug that would leave out raise_for_status(): only a raised exception
\* stops the call
RaisesWithoutStatusCheck(status) == status = "exception"

\* session.get(...) raises, or response.raise_for_status() does
Raises(status) == status \in {"exception", "error"}

DownloadInit ==
    /\ \E n \in 1..MaxSongs : \E names \in [1..n -> SongNames] :
          songs = [i \in 1..n |-> [id |-> i, name |-> names[i]]]
    /\ maxWorkers \in 1..MaxWorkers
    /\ \E present \in SUBSET {FilePath(songs[i]) : i \in DOMAIN songs} :
          fs = [p \in present |-> "old"]
    /\ referer = NoText
    /\ pc = [t \in Tasks |-> "queued"]
    /\ body = AllNone /\ result = AllNoText /\ outcome = AllNone
    /\ pageRef = AllNoText /\ rawRef = AllNoText /\ pageStatus = AllNone
    /\ openedPath = AllNoText /\ handle = AllNone
    /\ existedAtCall = AllNone /\ fsAtCall = AllNone
    /\ reported = {} /\ completed = 0 /\ failed = 0
    /\ mainpc = "running" /\ printed = None
    /\ prevOutcome = AllNone

InitDownload == DownloadInit /\ ConvertIdle /\ ScrapeIdle /\ VerifyIdle

\* return f"Failed: {song['name']} - ..."
ReturnFailed(t, why) ==
    /\ result' = [result EXCEPT ![t] = FailedMsg(songs[t], why)]
    /\ outcome' = [outcome EXCEPT ![t] = "failed"]
    /\ pc' = [pc EXCEPT ![t] = "done"]

\* A worker thread takes the next queued task and runs download_song up to
\* the filepath.exists() test.
Start(t) ==
    /\ mainpc = "running" /\ pc[t] = "queued"
    /\ \A u \in Tasks : u < t => pc[u] # "queued"
    /\ Cardinality(Running) < maxWorkers
    /\ existedAtCall' = [existedAtCall EXCEPT ![t] =
                           IF Exists(fs, Path(t)) THEN "yes" ELSE "no"]
    /\ fsAtCall' = [fsAtCall EXCEPT ![t] = ContentOf(fs, Path(t))]
    /\ IF SkipTest(fs, Path(t))
          THEN /\ result' = [result EXCEPT ![t] = SkippedMsg(songs[t])]
               /\ outcome' = [outcome EXCEPT ![t] = "skipped"]
               /\ pc' = [pc EXCEPT ![t] = "done"]
          ELSE /\ pc' = [pc EXCEPT ![t] = "setPageReferer"]
               /\ UNCHANGED <<result, outcome>>
    /\ UNCHANGED <<songs, maxWorkers, fs, referer, body, pageRef, rawRef,
                   pageStatus, openedPath, handle, reported, completed, failed,
                   mainpc, printed, prevOutcome, cvars, svars, vvars>>

\* session.headers['Referer'] = 'https://smashcustommusic.net/game/5609'
SetPageReferer(t) ==
    /\ pc[t] = "setPageReferer"
    /\ referer' = GamePage
    /\ pc' = [pc EXCEPT ![t] = "getPage"]
    /\ UNCHANGED <<songs, maxWorkers, fs, body, result, outcome, pageRef, rawRef,
                   pageStatus, openedPath, handle, existedAtCall, fsAtCall,
                   reported, completed, failed, mainpc, printed,
                   prevOutcome, cvars, svars, vvars>>

\* response = session.get(song_page_url); response.raise_for_status()
GetPage(t) ==
    /\ pc[t] = "getPage"
    /\ \E status \in {"ok", "error", "exception"} :
          /\ pageRef' = [pageRef EXCEPT ![t] = referer]
          /\ pageStatus' = [pageStatus EXCEPT ![t] = status]
          /\ IF Raises(status)
                THEN ReturnFailed(t, "page request")
                ELSE /\ pc' = [pc EXCEPT ![t] = "setRawReferer"]
                     /\ UNCHANGED <<result, outcome>>
    /\ UNCHANGED <<songs, maxWorkers, fs, referer, body, rawRef, openedPath,
                   handle, existedAtCall, fsAtCall, reported, completed, failed,
                   mainpc, printed, prevOutcome, cvars, svars, vvars>>

\* session.headers['Referer'] = song_page_url
SetRawReferer(t) ==
    /\ pc[t] = "setRawReferer"
    /\ referer' = SongPage(songs[t].id)
    /\ pc' = [pc EXCEPT ![t] = "getRaw"]
    /\ UNCHANGED <<songs, maxWorkers, fs, body, result, outcome, pageRef, rawRef,
                   pageStatus, openedPath, handle, existedAtCall, fsAtCall,
                   reported, completed, failed, mainpc, printed,
                   prevOutcome, cvars, svars, vvars>>

\* response = session.get(song['url'], stream=True); raise_for_status();
\* the content-type sniff for the bot-protection page
GetRaw(t) ==
    /\ pc[t] = "getRaw"
    /\ \E resp \in {"error", "exception", "bot", "audio", "errpage"} :
          /\ rawRef' = [rawRef EXCEPT ![t] = referer]
          /\ IF Raises(resp)
                THEN ReturnFailed(t, "raw request") /\ UNCHANGED body
                ELSE IF resp = "bot"
                THEN ReturnFailed(t, "Bot protection triggered") /\ UNCHANGED body
                ELSE /\ body' = [body EXCEPT ![t] = resp]
                     /\ pc' = [pc EXCEPT ![t] = "open"]
                     /\ UNCHANGED <<result, outcome>>
    /\ UNCHANGED <<songs, maxWorkers, fs, referer, pageRef, pageStatus,
                   openedPath, handle, existedAtCall, fsAtCall, reported,
                   completed, failed, mainpc, printed, prevOutcome,
                   cvars, svars, vvars>>

\* with open(filepath, 'wb') as f: creates the file, or truncates it
OpenFile(t) ==
    /\ pc[t] = "open"
    /\ fs' = WriteFile(fs, Path(t), "partial")
    /\ openedPath' = [openedPath EXCEPT ![t] = Path(t)]
    /\ handle' = [handle EXCEPT ![t] = "live"]
    /\ pc' = [pc EXCEPT ![t] = "write"]
    /\ UNCHANGED <<songs, maxWorkers, referer, body, result, outcome, pageRef,
                   rawRef, pageStatus, existedAtCall, fsAtCall, reported,
                   completed, failed, mainpc, printed, prevOutcome,
                   cvars, svars, vvars>>

\* for chunk in response.iter_content(...): f.write(chunk)
\* either the whole body arrives, or the connection breaks part-way and the
\* exception leaves what was written so far
WriteBody(t) ==
    /\ pc[t] = "write"
    /\ \E arrived \in BOOLEAN :
          IF arrived
             THEN /\ fs' = IF handle[t] = "live"
                              THEN WriteFile(fs, Path(t), body[t]) ELSE fs
                  /\ pc' = [pc EXCEPT ![t] = "verify"]
                  /\ UNCHANGED <<result, outcome>>
             ELSE ReturnFailed(t, "connection broken") /\ UNCHANGED fs
    /\ handle' = [handle EXCEPT ![t] = None]
    /\ UNCHANGED <<songs, maxWorkers, referer, body, pageRef, rawRef,
                   pageStatus, openedPath, existedAtCall, fsAtCall, reported,
                   completed, failed, mainpc, printed, prevOutcome,
                   cvars, svars, vvars>>

\* content whose size is under 1000 bytes / content that holds 'html'
IsSmall(c)   == c \in {"partial", "errpage"}
HoldsHtml(c) == c = "errpage"

\* if filepath.stat().st_size < 1000: ... filepath.unlink(); return Failed
\* return f"Downloaded: {song['name']}"
Verify(t) ==
    /\ pc[t] = "verify"
    /\ IF ~Exists(fs, Path(t))
          THEN \* stat() raises FileNotFoundError: another task unlinked the file
               /\ ReturnFailed(t, "No such file")
               /\ UNCHANGED <<fs, handle>>
          ELSE IF IsSmall(fs[Path(t)]) /\ HoldsHtml(fs[Path(t)])
          THEN /\ fs' = Unlink(fs, Path(t))
               /\ handle' = [u \in Tasks |->
                                IF handle[u] = "live" /\ Path(u) = Path(t)
                                   THEN "orphan" ELSE handle[u]]
               /\ ReturnFailed(t, "Got error page instead of file")
          ELSE /\ result' = [result EXCEPT ![t] = DownloadedMsg(songs[t])]
               /\ outcome' = [outcome EXCEPT ![t] = "downloaded"]
               /\ pc' = [pc EXCEPT ![t] = "done"]
               /\ UNCHANGED <<fs, handle>>
    /\ UNCHANGED <<songs, maxWorkers, referer, body, pageRef, rawRef,
                   pageStatus, openedPath, existedAtCall, fsAtCall, reported,
                   completed, failed, mainpc, printed, prevOutcome,
                   cvars, svars, vvars>>

\* for future in as_completed(future_to_song): one turn of the loop
Collect(t) ==
    /\ mainpc = "running" /\ pc[t] = "done" /\ t \notin reported
    /\ completed' = completed + 1
    /\ failed' = IF In("Failed", result[t]) THEN failed + 1 ELSE failed
    /\ reported' = reported \cup {t}
    /\ UNCHANGED <<songs, maxWorkers, fs, referer, pc, body, result, outcome,
                   pageRef, rawRef, pageStatus, openedPath, handle,
                   existedAtCall, fsAtCall, mainpc, printed, prevOutcome,
                   cvars, svars, vvars>>

\* print(f"Downloaded: {completed - failed}"); print(f"Failed: {failed}")
Summary ==
    /\ mainpc = "running" /\ reported = Tasks
    /\ printed' = [downloaded |-> completed - failed, failed |-> failed]
    /\ mainpc' = "done"
    /\ UNCHANGED <<songs, maxWorkers, fs, referer, pc, body, result, outcome,
                   pageRef, rawRef, pageStatus, openedPath, handle,
                   existedAtCall, fsAtCall, reported, completed, failed,
                   prevOutcome, cvars, svars, vvars>>

\* the operator runs the script again, any number of times: same page, same
\* directory
Rerun ==
    /\ mainpc = "done"
    /\ prevOutcome' = outcome
    /\ referer' = NoText
    /\ pc' = [t \in Tasks |-> "queued"]
    /\ body' = AllNone /\ result' = AllNoText /\ outcome' = AllNone
    /\ pageRef' = AllNoText /\ rawRef' = AllNoText /\ pageStatus' = AllNone
    /\ openedPath' = AllNoText /\ handle' = AllNone
    /\ existedAtCall' = AllNone /\ fsAtCall' = AllNone
    /\ reported' = {} /\ completed' = 0 /\ failed' = 0
    /\ mainpc' = "running" /\ printed' = None
    /\ UNCHANGED <<songs, maxWorkers, fs, cvars, svars, vvars>>

NextDownload ==
    \/ \E t \in Tasks : Start(t)
    \/ \E t \in Tasks : SetPageReferer(t)
    \/ \E t \in Tasks : GetPage(t)
    \/ \E t \in Tasks : SetRawReferer(t)
    \/ \E t \in Tasks : GetRaw(t)
    \/ \E t \in Tasks : OpenFile(t)
    \/ \E t \in Tasks : WriteBody(t)
    \/ \E t \in Tasks : Verify(t)
    \/ \E t \in Tasks : Collect(t)
    \/ Summary
    \/ Rerun

SpecDownload == InitDownload /\ [][NextDownload]_vars

(***************************************************************************)
(* Converter: convert_files_parallel and its convert_file calls            *)
(***************************************************************************)
Stems == Range(brstm)

\* a bug that would test and write the output under another suffix
OutputPathWrongSuffix(stem) == <<stem, ".alac">>

\* output_path = Path(OUTPUT_DIR) / f"{brstm_path.stem}.m4a"
OutputPath(stem) == <<stem, ".m4a">>

\* temp_wav = output_path.with_suffix('.wav')
TempWav(stem) == <<OutputPath(stem)[1], ".wav">>

\* a bug that would name the wrong exception class in the except clause
CaughtOSErrorOnly(exc) == exc = "OSError"

\* except subprocess.CalledProcessError:
Caught(exc) == exc = "CalledProcessError"

\* a bug that would leave out check=True: a non-zero exit raises nothing
ExceptionOfWithoutCheck(status) ==
    IF status = "oserror" THEN "OSError" ELSE None

\* subprocess.run(..., check=True): the exception a run ends with
ExceptionOf(status) ==
    CASE status = "exit0"   -> None
      [] status = "nonzero" -> "CalledProcessError"
      [] status = "oserror" -> "OSError"       \* the binary could not be started

ConvertInit ==
    /\ \E n \in 1..MaxFiles : brstm = [i \in 1..n |-> i]
    /\ cpus \in 1..MaxCpus
    /\ \E m4a \in SUBSET Range(brstm) : \E wav \in SUBSET Range(brstm) :
          ofs = [p \in {OutputPath(x) : x \in m4a} \cup {TempWav(x) : x \in wav}
                    |-> "old"]
    /\ ofs0 = ofs
    /\ cpc = "scan"
    /\ skipped = {} /\ tasks = <<>>
    /\ submits = [x \in Range(brstm) |-> 0]
    /\ wpc = [x \in Range(brstm) |-> None]
    /\ cresult = [x \in Range(brstm) |-> None]
    /\ extractor = [x \in Range(brstm) |-> None]
    /\ transcoder = [x \in Range(brstm) |-> None]
    /\ removal = [x \in Range(brstm) |-> None]
    /\ printedLines = {} /\ ccompleted = 0

InitConvert == ConvertInit /\ DownloadIdle /\ ScrapeIdle /\ VerifyIdle

\* for brstm_path in brstm_files: skip what has its output, queue the rest;
\* if not tasks: "All files already converted!" and return
Scan ==
    /\ cpc = "scan"
    /\ LET has(x) == Exists(ofs, OutputPath(x))
           todo   == SelectSeq(brstm, LAMBDA x : ~has(x))
       IN  /\ skipped' = {x \in Stems : has(x)}
           /\ tasks' = todo
           /\ ccompleted' = Cardinality({x \in Stems : has(x)})
           /\ cpc' = IF todo = <<>> THEN "allConverted" ELSE "submit"
    /\ UNCHANGED <<brstm, cpus, ofs, ofs0, submits, wpc, cresult, extractor,
                   transcoder, removal, printedLines, dvars, svars, vvars>>

\* for idx, (brstm_path, output_path) in enumerate(tasks, ...): executor.submit
SubmitAll ==
    /\ cpc = "submit"
    /\ submits' = [x \in Stems |->
                      submits[x] + Cardinality({i \in DOMAIN tasks : tasks[i] = x})]
    /\ wpc' = [x \in Stems |-> IF x \in Range(tasks) THEN "queued" ELSE wpc[x]]
    /\ cpc' = "collect"
    /\ UNCHANGED <<brstm, cpus, ofs, ofs0, skipped, tasks, cresult, extractor,
                   transcoder, removal, printedLines, ccompleted, dvars, svars, vvars>>

Busy == {x \in Stems : wpc[x] \notin {None, "queued", "done"}}

\* the exception leaves convert_file: the future holds it
Raise(x) ==
    /\ cresult' = [cresult EXCEPT ![x] = "raised"]
    /\ wpc' = [wpc EXCEPT ![x] = "done"]

\* where convert_file goes after a subprocess.run that ended with `status`
AfterRun(x, status, next) ==
    IF ExceptionOf(status) = None
       THEN wpc' = [wpc EXCEPT ![x] = next] /\ UNCHANGED cresult
    ELSE IF Caught(ExceptionOf(status))
       THEN wpc' = [wpc EXCEPT ![x] = "except"] /\ UNCHANGED cresult
    ELSE Raise(x)

\* A pool worker takes the next queued task and runs vgmstream-cli:
\* subprocess.run([VGMSTREAM, "-o", temp_wav, brstm_path], check=True)
RunExtractor(x) ==
    /\ cpc \in {"collect", "unwinding"} /\ wpc[x] = "queued"
    /\ \A i, j \in DOMAIN tasks : i < j /\ tasks[j] = x => wpc[tasks[i]] # "queued"
    /\ Cardinality(Busy) < cpus
    /\ \E status \in {"exit0", "nonzero", "oserror"} : \E wrote \in BOOLEAN :
          /\ status = "exit0" => wrote
          /\ status = "oserror" => ~wrote
          /\ extractor' = [extractor EXCEPT ![x] = status]
          /\ ofs' = IF wrote
                       THEN WriteFile(ofs, TempWav(x),
                                      IF status = "exit0" THEN "pcm" ELSE "partial")
                       ELSE ofs
          /\ AfterRun(x, status, "transcode")
    /\ UNCHANGED <<brstm, cpus, ofs0, cpc, skipped, tasks, submits, transcoder,
                   removal, printedLines, ccompleted, dvars, svars, vvars>>

\* subprocess.run(["ffmpeg", "-i", temp_wav, "-c:a", "alac", "-y", output_path],
\*                check=True)
RunTranscoder(x) ==
    /\ wpc[x] = "transcode"
    /\ \E status \in {"exit0", "nonzero", "oserror"} : \E wrote \in BOOLEAN :
          /\ status = "exit0" => wrote
          /\ status = "oserror" => ~wrote
          /\ transcoder' = [transcoder EXCEPT ![x] = status]
          /\ ofs' = IF wrote
                       THEN WriteFile(ofs, OutputPath(x),
                                      IF status = "exit0" THEN "alac" ELSE "partial")
                       ELSE ofs
          /\ AfterRun(x, status, "unlink")
    /\ UNCHANGED <<brstm, cpus, ofs0, cpc, skipped, tasks, submits, extractor,
                   removal, printedLines, ccompleted, dvars, svars, vvars>>

\* temp_wav.unlink(); return "... Converted: ..."
UnlinkWav(x) ==
    /\ wpc[x] = "unlink"
    /\ \E status \in {"ok", "oserror"} :
          /\ status = "ok" => Exists(ofs, TempWav(x))
          /\ removal' = [removal EXCEPT ![x] = status]
          /\ IF status = "ok"
                THEN /\ ofs' = Unlink(ofs, TempWav(x))
                     /\ cresult' = [cresult EXCEPT ![x] = "Converted"]
                     /\ wpc' = [wpc EXCEPT ![x] = "done"]
                ELSE Raise(x) /\ UNCHANGED ofs
    /\ UNCHANGED <<brstm, cpus, ofs0, cpc, skipped, tasks, submits, extractor,
                   transcoder, printedLines, ccompleted, dvars, svars, vvars>>

\* a bug that would leave out the clean-up of the except branch
HandleWithoutCleanup(x) ==
    /\ wpc[x] = "except"
    /\ cresult' = [cresult EXCEPT ![x] = "Failed"]
    /\ wpc' = [wpc EXCEPT ![x] = "done"]
    /\ UNCHANGED <<brstm, cpus, ofs, ofs0, cpc, skipped, tasks, submits,
                   extractor, transcoder, removal, printedLines, ccompleted,
                   dvars, svars, vvars>>

\* except subprocess.CalledProcessError:
\*     if temp_wav.exists(): temp_wav.unlink()
\*     return "... Failed: ..."
HandleCalledProcessError(x) ==
    /\ wpc[x] = "except"
    /\ IF Exists(ofs, TempWav(x))
          THEN \E status \in {"ok", "oserror"} :
                  /\ removal' = [removal EXCEPT ![x] = status]
                  /\ IF status = "ok"
                        THEN /\ ofs' = Unlink(ofs, TempWav(x))
                             /\ cresult' = [cresult EXCEPT ![x] = "Failed"]
                             /\ wpc' = [wpc EXCEPT ![x] = "done"]
                        ELSE Raise(x) /\ UNCHANGED ofs
          ELSE /\ cresult' = [cresult EXCEPT ![x] = "Failed"]
               /\ wpc' = [wpc EXCEPT ![x] = "done"]
               /\ UNCHANGED <<ofs, removal>>
    /\ UNCHANGED <<brstm, cpus, ofs0, cpc, skipped, tasks, submits, extractor,
                   transcoder, printedLines, ccompleted, dvars, svars, vvars>>

\* for future in as_completed(futures): result = future.result(); print(result)
\* future.result() re-raises what convert_file raised: the loop is left
PrintResult(x) ==
    /\ cpc = "collect" /\ wpc[x] = "done" /\ x \notin printedLines
    /\ IF cresult[x] = "raised"
          THEN cpc' = "unwinding" /\ UNCHANGED <<printedLines, ccompleted>>
          ELSE /\ printedLines' = printedLines \cup {x}
               /\ ccompleted' = ccompleted + 1
               /\ UNCHANGED cpc
    /\ UNCHANGED <<brstm, cpus, ofs, ofs0, skipped, tasks, submits, wpc, cresult,
                   extractor, transcoder, removal, dvars, svars, vvars>>

\* print("Conversion complete!")
ConversionComplete ==
    /\ cpc = "collect" /\ printedLines = Range(tasks)
    /\ cpc' = "done"
    /\ UNCHANGED <<brstm, cpus, ofs, ofs0, skipped, tasks, submits, wpc, cresult,
                   extractor, transcoder, removal, printedLines, ccompleted,
                   dvars, svars, vvars>>

\* The exception leaves the with block: the executor's exit waits for every
\* submitted task, then the exception ends convert_files_parallel.
Abort ==
    /\ cpc = "unwinding" /\ \A x \in Range(tasks) : wpc[x] = "done"
    /\ cpc' = "aborted"
    /\ UNCHANGED <<brstm, cpus, ofs, ofs0, skipped, tasks, submits, wpc, cresult,
                   extractor, transcoder, removal, printedLines, ccompleted,
                   dvars, svars, vvars>>

NextConvert ==
    \/ Scan
    \/ SubmitAll
    \/ \E x \in Stems : RunExtractor(x)
    \/ \E x \in Stems : RunTranscoder(x)
    \/ \E x \in Stems : UnlinkWav(x)
    \/ \E x \in Stems : HandleCalledProcessError(x)
    \/ \E x \in Stems : PrintResult(x)
    \/ ConversionComplete
    \/ Abort

SpecConvert == InitConvert /\ [][NextConvert]_vars

(***************************************************************************)
(* Scrape: fetch_song_data of the downloader and of the URL-list generator *)
(*                                                                         *)
(* The page is a sequence of tokens:                                       *)
(*   [k |-> "row", id |-> n]  <tr id="s<n>"> <td><a href="/song/<n>">      *)
(*   [k |-> "text", s |-> w]  text w, holding no '<'                       *)
(*   [k |-> "marker"]         the text  Remixes / Fanmade                  *)
(*   [k |-> "close"]          </a>                                         *)
(***************************************************************************)
Marker == [k |-> "marker"]
PageTokens ==
    {[k |-> "row", id |-> n] : n \in 1..2}
       \cup {[k |-> "text", s |-> w] : w \in {"a", "&amp;"}}
       \cup {Marker, [k |-> "close"]}

\* what [^<]+ can run over
IsText(tok) == tok.k \in {"text", "marker"}
TextOf(tok) == IF tok.k = "marker" THEN "Remixes / Fanmade" ELSE tok.s

\* html.split("Remixes / Fanmade")[0] if "Remixes / Fanmade" in html else html
BeforeMarker(page) ==
    IF \E i \in DOMAIN page : page[i] = Marker
       THEN LET first == CHOOSE i \in DOMAIN page :
                            /\ page[i] = Marker
                            /\ \A j \in 1..(i - 1) : page[j] # Marker
            IN  SubSeq(page, 1, first - 1)
       ELSE page

\* end of the run of text that starts at i (the index after its last token)
RECURSIVE TextEnd(_, _)
TextEnd(page, i) ==
    IF i <= Len(page) /\ IsText(page[i]) THEN TextEnd(page, i + 1) ELSE i

\* re.findall(song_pattern, ...): leftmost matches, left to right, none
\* overlapping; a match is a row opening, one or more text tokens, then </a>
RECURSIVE FindAll(_, _)
FindAll(page, i) ==
    IF i > Len(page) THEN <<>>
    ELSE LET e == TextEnd(page, i + 1)
         IN  IF /\ page[i].k = "row"
                /\ e > i + 1
                /\ e <= Len(page) /\ page[e].k = "close"
                THEN <<[id |-> page[i].id,
                        name |-> [j \in 1..(e - i - 1) |-> TextOf(page[i + j])]]>>
                        \o FindAll(page, e + 1)
                ELSE FindAll(page, i + 1)

\* song_name.replace('&#039;', "'").replace('&amp;', '&'), then unquote()
DecodeToken(w) ==
    CASE w = "&#039;" -> "'"
      [] w = "&amp;"  -> "&"
      [] w = "%41"    -> "A"
      [] OTHER        -> w
DecodeName(name) == [j \in DOMAIN name |-> DecodeToken(name[j])]

\* download_mkw_music.fetch_song_data, on a page that was received
DownloaderSongs(page) ==
    LET matches == FindAll(BeforeMarker(page), 1)
    IN  [j \in DOMAIN matches |->
            [id   |-> matches[j].id,
             name |-> DecodeName(matches[j].name),
             url  |-> <<"brstm", matches[j].id>>]]

\* generate_download_urls.fetch_song_data, on a page that was received
GeneratorSongs(page) ==
    LET matches == FindAll(page, 1)
    IN  [j \in DOMAIN matches |->
            [id           |-> matches[j].id,
             name         |-> DecodeName(matches[j].name),
             page_url     |-> <<"song", matches[j].id>>,
             download_url |-> <<"brstm", matches[j].id>>]]

ScrapeInit ==
    /\ \E n \in 0..MaxPageLen : html \in [1..n -> PageTokens]
    /\ dlSongs = NotFetched
    /\ genSongs = NotFetched

InitScrape == ScrapeInit /\ DownloadIdle /\ ConvertIdle /\ VerifyIdle

\* the downloader's fetch_song_data(): the list, or [] when the request fails
DownloaderFetch ==
    /\ dlSongs.status = "pending"
    /\ \E ok \in BOOLEAN :
          dlSongs' = IF ok THEN [status |-> "ok", songs |-> DownloaderSongs(html)]
                           ELSE [status |-> "error", songs |-> <<>>]
    /\ UNCHANGED <<html, genSongs, dvars, cvars, vvars>>

\* the generator's fetch_song_data(): the list, or [] when the request fails
GeneratorFetch ==
    /\ genSongs.status = "pending"
    /\ \E ok \in BOOLEAN :
          genSongs' = IF ok THEN [status |-> "ok", songs |-> GeneratorSongs(html)]
                            ELSE [status |-> "error", songs |-> <<>>]
    /\ UNCHANGED <<html, dlSongs, dvars, cvars, vvars>>

NextScrape == DownloaderFetch \/ GeneratorFetch

SpecScrape == InitScrape /\ [][NextScrape]_vars

(***************************************************************************)
(* Verifier: verify_downloads                                              *)
(***************************************************************************)
\* the number the verifier expects: ... == 267
ExpectedTotal == 267

\* the i-th name of a list of n: the first holds ':'; in a colliding list the
\* last is the first with '?' for ':', so that both sanitize to one file name
SiteName(i, n, collide) ==
    IF collide /\ i = n /\ n > 1 THEN <<"s", ToString(1), "?">>
    ELSE IF i = 1 THEN <<"s", ToString(1), ":">>
    ELSE <<"s", ToString(i)>>

\* f"{sanitize_filename(song)}.brstm"; the verifier's sanitize_filename is the
\* downloader's, character for character
ExpectedFile(name) == sanitize_filename(name) \o <<".brstm">>

\* expected_set = {f"{sanitize_filename(song)}.brstm" for song in expected_songs}
ExpectedSet(list) == {ExpectedFile(list[i]) : i \in DOMAIN list}

VerifyInit ==
    /\ \E n \in (ExpectedTotal - VerifySlack)..(ExpectedTotal + VerifySlack) :
       \E collide \in BOOLEAN :
          vSite = [i \in 1..n |-> SiteName(i, n, collide)]
    /\ vDirExists \in BOOLEAN
    /\ \E gone \in SUBSET {ExpectedFile(vSite[2])} :
       \E more \in SUBSET {<<"other", ".brstm">>} :
       \E tiny \in SUBSET {ExpectedFile(vSite[3])} :
          vDir = IF vDirExists
                    THEN [f \in (ExpectedSet(vSite) \ gone) \cup more |->
                             IF f \in tiny THEN "small" ELSE "audio"]
                    ELSE <<>>
    /\ vpc = "fetch"
    /\ vExpected = <<>> /\ vFiles = {} /\ vMissing = {} /\ vExtra = {}
    /\ vSmall = {} /\ vCount = None /\ vMatch = None /\ vFinal = None

InitVerify == VerifyInit /\ DownloadIdle /\ ConvertIdle /\ ScrapeIdle

\* expected_songs = fetch_expected_songs(); if not expected_songs: return
FetchExpected ==
    /\ vpc = "fetch"
    /\ \E ok \in BOOLEAN :
          /\ vExpected' = IF ok THEN vSite ELSE <<>>
          /\ vpc' = IF ok /\ vSite # <<>> THEN "list" ELSE "returned"
    /\ UNCHANGED <<vSite, vDirExists, vDir, vFiles, vMissing, vExtra, vSmall,
                   vCount, vMatch, vFinal, dvars, cvars, svars>>

\* if not download_dir.exists(): return
\* downloaded_files = list(download_dir.glob('*.brstm'))
ListFiles ==
    /\ vpc = "list"
    /\ IF vDirExists
          THEN vFiles' = DOMAIN vDir /\ vpc' = "compare"
          ELSE vFiles' = vFiles /\ vpc' = "returned"
    /\ UNCHANGED <<vSite, vDirExists, vDir, vExpected, vMissing, vExtra, vSmall,
                   vCount, vMatch, vFinal, dvars, cvars, svars>>

\* missing = expected_set - downloaded_set; extra = downloaded_set - expected_set
\* if len(expected_songs) == len(downloaded_files) == 267: COUNT VERIFICATION
CountVerification ==
    /\ vpc = "compare"
    /\ vMissing' = ExpectedSet(vExpected) \ vFiles
    /\ vExtra' = vFiles \ ExpectedSet(vExpected)
    /\ vCount' = IF /\ Len(vExpected) = Cardinality(vFiles)
                    /\ Cardinality(vFiles) = ExpectedTotal
                    THEN "PASSED" ELSE "FAILED"
    /\ vpc' = "match"
    /\ UNCHANGED <<vSite, vDirExists, vDir, vExpected, vFiles, vSmall, vMatch,
                   vFinal, dvars, cvars, svars>>

\* if not missing and not extra: FILE MATCHING: PASSED
FileMatching ==
    /\ vpc = "match"
    /\ vMatch' = IF vMissing = {} /\ vExtra = {} THEN "PASSED" ELSE "ISSUES"
    /\ vpc' = "sizes"
    /\ UNCHANGED <<vSite, vDirExists, vDir, vExpected, vFiles, vMissing, vExtra,
                   vSmall, vCount, vFinal, dvars, cvars, svars>>

\* small_files = [f for f in downloaded_files if f.stat().st_size < 100000]
SizeAnalysis ==
    /\ vpc = "sizes"
    /\ vSmall' = {f \in vFiles : vDir[f] = "small"}
    /\ vpc' = "verdict"
    /\ UNCHANGED <<vSite, vDirExists, vDir, vExpected, vFiles, vMissing, vExtra,
                   vCount, vMatch, vFinal, dvars, cvars, svars>>

\* if len(downloaded_files) == 267 and not missing and not extra
\*    and not small_files: FINAL VERDICT: ALL CHECKS PASSED
FinalVerdict ==
    /\ vpc = "verdict"
    /\ vFinal' = IF /\ Cardinality(vFiles) = ExpectedTotal
                    /\ vMissing = {} /\ vExtra = {} /\ vSmall = {}
                    THEN "PASSED" ELSE "ISSUES"
    /\ vpc' = "done"
    /\ UNCHANGED <<vSite, vDirExists, vDir, vExpected, vFiles, vMissing, vExtra,
                   vSmall, vCount, vMatch, dvars, cvars, svars>>

NextVerify ==
    \/ FetchExpected
    \/ ListFiles
    \/ CountVerification
    \/ FileMatching
    \/ SizeAnalysis
    \/ FinalVerdict

SpecVerify == InitVerify /\ [][NextVerify]_vars

(***************************************************************************)
(* Claims about the downloader (checked under SpecDownload)                *)
(***************************************************************************)

\* C1: a download_song call that finds its target file already present sends
\* neither the song-page request nor the raw-file request, never opens the
\* file, returns the 'Skipped' string, and the step that makes the test leaves
\* the directory exactly as it was.
C1_SkipExistingFile ==
    /\ [](\A t \in Tasks :
             existedAtCall[t] = "yes" =>
                /\ pc[t] = "done"
                /\ result[t] = SkippedMsg(songs[t])
                /\ pageRef[t] = NoText /\ rawRef[t] = NoText
                /\ openedPath[t] = NoText)
    /\ [][\A t \in Tasks :
             (pc[t] = "queued" /\ pc'[t] # "queued" /\ Exists(fs, Path(t)))
                => fs' = fs]_vars

\* C1 witness: a call found an old file in place and has returned
C1_Witness ==
    \E t \in Tasks : existedAtCall[t] = "yes" /\ fsAtCall[t] = "old" /\ pc[t] = "done"

\* C5 (the claim as stated): in the summary, 'Downloaded' is the number of
\* songs fetched and written in this run and 'Failed' the number of calls
\* that failed.
C5_SummaryCounts ==
    mainpc = "done" =>
       /\ printed.downloaded = Cardinality({t \in Tasks : outcome[t] = "downloaded"})
       /\ printed.failed = Cardinality({t \in Tasks : outcome[t] = "failed"})

\* C6 (the claim as stated): a song whose call failed in the previous run is
\* not skipped as already existing by its call in this run.
C6_FailedSongIsRetried ==
    \A t \in Tasks :
       prevOutcome[t] = "failed" /\ outcome[t] # None => outcome[t] # "skipped"

\* C7 (the claim as stated): no two tasks of one run open the same path for
\* writing.
C7_NoSharedTarget ==
    \A t, u \in Tasks :
       t # u /\ openedPath[t] # NoText /\ openedPath[u] # NoText
          => openedPath[t] # openedPath[u]

\* the song names sanitize to pairwise distinct file names
DistinctSanitizedNames ==
    \A t, u \in Tasks :
       t # u => sanitize_filename(songs[t].name) # sanitize_filename(songs[u].name)

\* C7 (amended): when the names of the list sanitize to pairwise distinct
\* file names, no two tasks of one run open the same path for writing.
C7_NoSharedTargetWhenDistinct == DistinctSanitizedNames => C7_NoSharedTarget

\* C7 witness: two tasks of a list with distinct sanitized names have both
\* opened their files
C7_Witness ==
    /\ DistinctSanitizedNames
    /\ \E t, u \in Tasks : t # u /\ openedPath[t] # NoText /\ openedPath[u] # NoText

\* C8 (the claim as stated): the song-page request carries the game page as
\* Referer and the raw-file request carries that song's own page.
C8_RefererPerRequest ==
    \A t \in Tasks :
       /\ pageRef[t] # NoText => pageRef[t] = GamePage
       /\ rawRef[t] # NoText => rawRef[t] = SongPage(songs[t].id)

\* C10: the raw-file request of a call is sent only after the song-page
\* request of the same call succeeded; a call whose song-page request failed
\* sends no raw-file request, opens no file and returns 'Failed'.
C10_TwoStepProtocol ==
    \A t \in Tasks :
       /\ rawRef[t] # NoText => pageStatus[t] = "ok"
       /\ pageStatus[t] \in {"error", "exception"} =>
             /\ rawRef[t] = NoText /\ openedPath[t] = NoText
             /\ pc[t] = "done" /\ outcome[t] = "failed"
             /\ Head(result[t]) = "Failed"

\* C10 witness: one call ended on an error status of its song page while
\* another got as far as its raw-file request
C10_Witness ==
    \E t, u \in Tasks :
       /\ pageStatus[t] = "error" /\ pc[t] = "done"
       /\ rawRef[u] # NoText

(***************************************************************************)
(* Claims about the converter (checked under SpecConvert)                  *)
(***************************************************************************)
M4a(x) == <<x, ".m4a">>
HadOutput(x) == M4a(x) \in DOMAIN ofs0

\* C2: once the scan is over, every input whose <stem>.m4a was already there
\* is reported as skipped, was never submitted, never reached the extractor
\* or the transcoder, and its output file is as the run found it; every other
\* input is not skipped and, once the submit loop is over, has been submitted
\* exactly once.
C2_SkipOrSubmitOnce ==
    cpc # "scan" =>
       \A x \in Stems :
          IF HadOutput(x)
             THEN /\ x \in skipped /\ submits[x] = 0
                  /\ extractor[x] = None /\ transcoder[x] = None
                  /\ M4a(x) \in DOMAIN ofs /\ ofs[M4a(x)] = ofs0[M4a(x)]
             ELSE /\ x \notin skipped
                  /\ submits[x] <= 1
                  /\ cpc # "submit" => submits[x] = 1

\* C2 witness: a finished run that skipped one input and converted another
C2_Witness ==
    /\ cpc = "done"
    /\ \E x, y \in Stems :
          /\ HadOutput(x) /\ x \in skipped
          /\ ~HadOutput(y) /\ submits[y] = 1 /\ cresult[y] = "Converted"

\* a failure hit the convert_file call of x
HitByFailure(x) ==
    \/ extractor[x] \in {"nonzero", "oserror"}
    \/ transcoder[x] \in {"nonzero", "oserror"}
    \/ removal[x] = "oserror"

\* C3 (the claim as stated): whatever failure hits an item, its call returns
\* the 'Failed' line, and the run is never ended by it.
C3_AnyFailureIsCaught ==
    /\ \A x \in Stems : wpc[x] = "done" /\ HitByFailure(x) => cresult[x] = "Failed"
    /\ cpc \notin {"unwinding", "aborted"}

\* C3 (amended): a non-zero exit of the extractor or the transcoder is caught
\* and returned as the 'Failed' line unless removing the intermediate file
\* then fails; a call raises only when a binary could not be started or the
\* intermediate file could not be removed; the run is ended early only by a
\* call that raised; and a run that reaches 'Conversion complete!' has printed
\* the result of every submitted item.
C3_ExitCodeFailuresAreCaught ==
    /\ \A x \in Stems :
          /\ ( /\ wpc[x] = "done"
               /\ "nonzero" \in {extractor[x], transcoder[x]}
               /\ removal[x] # "oserror" ) => cresult[x] = "Failed"
          /\ cresult[x] = "raised" =>
                \/ "oserror" \in {extractor[x], transcoder[x]}
                \/ removal[x] = "oserror"
    /\ cpc \in {"unwinding", "aborted"} => \E x \in Stems : cresult[x] = "raised"
    /\ cpc = "done" =>
          /\ printedLines = Range(tasks)
          /\ \A x \in Range(tasks) : cresult[x] \in {"Converted", "Failed"}

\* C3 witness: a run reached its summary although the extractor failed on one
\* item and the transcoder on another
C3_Witness ==
    /\ cpc = "done"
    /\ \E x, y \in Stems :
          /\ extractor[x] = "nonzero" /\ cresult[x] = "Failed"
          /\ transcoder[y] = "nonzero" /\ cresult[y] = "Failed"

\* C4 (the claim as stated): when the run has finished, the .m4a files it
\* added are as many as the items whose result was 'Converted'.
C4_OutputCountMatches ==
    cpc = "done" =>
       Cardinality({x \in Stems : M4a(x) \in DOMAIN ofs \ DOMAIN ofs0})
          = Cardinality({x \in Stems : cresult[x] = "Converted"})

\* the two invocations of convert_file are in order for x, and a non-zero
\* exit of the extractor keeps the transcoder and the output away
SequentialFor(x) ==
    /\ transcoder[x] # None => extractor[x] = "exit0"
    /\ extractor[x] = "nonzero" =>
          /\ transcoder[x] = None
          /\ M4a(x) \notin DOMAIN ofs

\* C11 (the claim as stated): ffmpeg is invoked for an item only after
\* vgmstream-cli exited 0 for it; when vgmstream-cli exits non-zero, ffmpeg is
\* never invoked for the item, no .m4a is created for it, and the call
\* returns the 'Failed' line.
C11_ExtractorFailureReturnsFailed ==
    \A x \in Stems :
       /\ SequentialFor(x)
       /\ extractor[x] = "nonzero" /\ wpc[x] = "done" => cresult[x] = "Failed"

\* C11 (amended): ffmpeg is invoked for an item only after vgmstream-cli
\* exited 0 for it; when vgmstream-cli exits non-zero, ffmpeg is never invoked
\* for the item, no .m4a is created for it, and the call returns the 'Failed'
\* line, or raises when the intermediate file cannot be removed in the except
\* branch.
C11_SequentialInvocations ==
    \A x \in Stems :
       /\ SequentialFor(x)
       /\ extractor[x] = "nonzero" /\ wpc[x] = "done" =>
             IF removal[x] = "oserror"
                THEN cresult[x] = "raised"
                ELSE cresult[x] = "Failed"

\* C11 witness: the extractor failed on one item, which returned 'Failed'
\* with no transcoder run, while the transcoder ran on another after its
\* extractor exited 0
C11_Witness ==
    \E x, y \in Stems :
       /\ extractor[x] = "nonzero" /\ cresult[x] = "Failed"
       /\ extractor[y] = "exit0" /\ transcoder[y] # None

Wav(x) == <<x, ".wav">>

\* C13: whenever convert_file has returned a result for an item ('Converted'
\* or 'Failed'), the item's intermediate .wav does not exist; so when every
\* task of a run returned a result, no .wav of a converted item is left.
C13_NoWavLeftBehind ==
    \A x \in Stems :
       cresult[x] \in {"Converted", "Failed"} => Wav(x) \notin DOMAIN ofs

\* C13 witness: a finished run in which one call returned 'Converted' and
\* another returned 'Failed' after its extractor had written a partial .wav
\* over a stale one
C13_Witness ==
    /\ cpc = "done"
    /\ \E x, y \in Stems :
          /\ cresult[x] = "Converted"
          /\ cresult[y] = "Failed" /\ removal[y] = "ok" /\ Wav(y) \in DOMAIN ofs0

(***************************************************************************)
(* Claims about the scrape (checked under SpecScrape)                      *)
(***************************************************************************)
IdAndName(list) == [j \in DOMAIN list |-> <<list[j].id, list[j].name>>]

\* C9 (the claim as stated): on the same page, received by both, the
\* downloader's fetch_song_data and the generator's return the same sequence
\* of (song id, song name) pairs.
C9_SameScrape ==
    dlSongs.status = "ok" /\ genSongs.status = "ok"
       => IdAndName(dlSongs.songs) = IdAndName(genSongs.songs)

(***************************************************************************)
(* Claims about the verifier (checked under SpecVerify)                    *)
(***************************************************************************)

\* C12 (the claim as stated): whenever the final verdict printed is 'ALL
\* CHECKS PASSED', the count verification of the same run printed 'PASSED'.
C12_VerdictsConsistent == vFinal = "PASSED" => vCount = "PASSED"

=============================================================================
